---- MODULE Spec2Model ----
(***************************************************************************)
(* Model of src/src/filter-history.py: the sequential pipeline of _main    *)
(* (tool check, clone + history filter, root flattening, commit, rename,   *)
(* commit, publish, archive, clean), the command runner _run_command with  *)
(* its dry-run switch, and the part of the file system the script reads    *)
(* and changes itself (the entries of the working clone's root and of the  *)
(* target directory).                                                      *)
(***************************************************************************)
EXTENDS Integers, Sequences, FiniteSets, TLC

VARIABLES
    cfg,          \* _RunConfig: the flags the pipeline reads
    pc,           \* position of _main in the pipeline
    cwd,          \* process working directory: "start" or "clone"
    prev_cwd,     \* _working_directory: the directory saved on entry
    error,        \* exception that reached the top level ("none" while running)
    failed_at,    \* pc at which that exception was raised
    events,       \* every _run_command call and every shutil.rmtree, in order
    fs,           \* the working clone on disk
    fs0,          \* the working clone as it was when the tool started
    repo,         \* entries of the target directory in the source repository
    root_folders, \* _change_root_directory: snapshot of root entry names
    target_files, \* _change_root_directory: snapshot of target entry names
    todo,         \* target entries the first loop has not visited yet
    skip_folders, \* _change_root_directory: (temporary name, final name) pairs
    to_remove,    \* root entries the second loop has not visited yet
    si,           \* index of the third loop in skip_folders
    is_tools,     \* result of _check_tools: "unset", "true", "false"
    is_rename,    \* result of _git_rename
    ri,           \* index of the loop of _git_rename in rename_files
    rename_hist,  \* per pair visited by _git_rename: did src exist, what happened
    message,      \* commit message of the current _git_commit call
    commits,      \* messages of the commits created in the clone
    remote,       \* hosting repository and the clone's `upstream` remote
    run_no,       \* 1 for the first execution, 2 for a second one
    dry_log       \* command lines logged by the first execution

vars == <<cfg, pc, cwd, prev_cwd, error, failed_at, events, fs, fs0, repo,
          root_folders, target_files, todo, skip_folders, to_remove, si,
          is_tools, is_rename, ri, rename_hist, message, commits, remote,
          run_no, dry_log>>

flatVars == <<root_folders, target_files, todo, skip_folders, to_remove, si>>
renameVars == <<is_rename, ri, rename_hist>>
pairVars == <<run_no, dry_log, fs0, repo>>

----------------------------------------------------------------------------
(* Bounds of the model *)

\* at most this many entries directly inside the target directory
MaxEntries == 2
\* at most this many extra root entries in a clone left by an earlier run
MaxExtras == 1

----------------------------------------------------------------------------
(* Fixed strings of the run *)

src_repository == "org/mono"
dst_repository == "org/widget"
target_dir == "libs/widget"
\* first component of target_dir: the root entry that holds the target directory
target_top == "libs"
\* raw_dir / src_repository.split("/")[1]
repository_dir == "data/raw/mono"
\* clone_dir.absolute()
AbsPath(p) == "/start/" \o p

\* rename_files of _main, in iteration order
rename_files == << <<"index.md", "README.md">> >>

Kinds == {"file", "dir"}
\* names an entry of the target directory can have, and the kinds each can be
\* of: index.md and a are plain files, the other two files or directories
TargetNames == {"a", "libs", "libs_test", "index.md"}
TargetKinds(n) == IF n \in {"a", "index.md"} THEN {"file"} ELSE Kinds
\* names and kinds of the entries added to the root of a leftover clone
ExtraNames == {"index.md", "notes"}
ExtraKinds(n) == Kinds

----------------------------------------------------------------------------
(* File system of the working clone *)

\* an entry of a directory: its name there, its kind, where it came from, and
\* the entries that git mv has put inside it
Node(name, kind, origin) ==
    [name |-> name, kind |-> kind, id |-> origin \o ":" \o name, sub |-> {}]

Names(dir) == {e.name : e \in dir}
Has(dir, name) == \E e \in dir : e.name = name
Get(dir, name) == CHOOSE e \in dir : e.name = name

NoClone == [exists |-> FALSE, root |-> {}, has_target |-> FALSE, target |-> {}]

\* the target directory's entries as nodes
TargetNodes(content) == {Node(c.name, c.kind, "T") : c \in content}

\* what `gh repo clone` checks out: the whole source repository
ClonedTree(content) ==
    [exists |-> TRUE,
     root |-> {Node(".git", "dir", "R"), Node("apps", "dir", "R")}
              \cup (IF content = {} THEN {} ELSE {Node(target_top, "dir", "R")}),
     has_target |-> content /= {},
     target |-> TargetNodes(content)]

\* what `git filter-repo --path target_dir` leaves in the work tree: the
\* metadata directory and the path down to the target directory
FilteredTree(f) ==
    [f EXCEPT !.root = {e \in f.root :
                          e.name = ".git" \/ (e.name = target_top /\ f.has_target)}]

\* git mv: the destination is free, or an existing directory to move into
CanPlace(root, dst) == \A d \in root : d.name = dst => d.kind = "dir"

Place(root, node, dst) ==
    IF Has(root, dst)
    THEN LET d == Get(root, dst)
         IN (root \ {d}) \cup {[d EXCEPT !.sub = @ \cup {node.id} \cup node.sub]}
    ELSE root \cup {[node EXCEPT !.name = dst]}

\* `git mv target_dir/name dst`, run in the clone root
CanMvFromTarget(f, name, dst) ==
    f.exists /\ f.has_target /\ Has(f.target, name) /\ CanPlace(f.root, dst)

MvFromTarget(f, name, dst) ==
    LET n == Get(f.target, name)
    IN [f EXCEPT !.root = Place(f.root, n, dst), !.target = f.target \ {n}]

\* `git mv src dst`, both in the clone root
CanMvInRoot(f, src, dst) ==
    f.exists /\ Has(f.root, src) /\ src /= dst /\ CanPlace(f.root \ {Get(f.root, src)}, dst)

MvInRoot(f, src, dst) ==
    LET n == Get(f.root, src)
    IN [f EXCEPT !.root = Place(f.root \ {n}, n, dst)]

\* shutil.rmtree(old_path) in the clone root: "ok", or the exception it raises
RmtreeResult(f, name) ==
    IF ~Has(f.root, name) THEN "FileNotFoundError"
    ELSE IF Get(f.root, name).kind = "file" THEN "NotADirectoryError"
    ELSE "ok"

Rmtree(f, name) ==
    LET n == Get(f.root, name)
        holds == n.id = "R:" \o target_top
    IN [f EXCEPT !.root = f.root \ {n},
                 !.has_target = IF holds THEN FALSE ELSE @,
                 !.target = IF holds THEN {} ELSE @]

----------------------------------------------------------------------------
(* Command runner *)

\* what the operating system can do with a process the runner starts: exit 0,
\* exit non-zero, outlive the timeout, or fail to start (Popen raises)
ProcOutcomes == {"ok", "nonzero", "timeout", "nolaunch"}

\* the exception _run_command raises for an outcome
ExcOf(o) ==
    CASE o = "nonzero" -> "_ScriptError"
      [] o = "timeout" -> "TimeoutExpired"
      [] o = "nolaunch" -> "FileNotFoundError"
      [] OTHER -> "none"

\* _run_command: the logged call and the exception it ends in. Under dry-run
\* nothing is started: the recorded outcome is "dry". `killed` records that
\* proc.kill() ended a process that was still running.
_run_command(command_args, dry_run, o) ==
    IF dry_run
    THEN [ev |-> [kind |-> "cmd", cmd |-> command_args, out |-> "dry", killed |-> FALSE],
          exc |-> "none"]
    ELSE [ev |-> [kind |-> "cmd", cmd |-> command_args, out |-> o,
                  killed |-> o = "timeout"],
          exc |-> ExcOf(o)]

\* faulty variant: the block is left without the chdir back
_working_directory_stay(prev, cur) == cur

\* _working_directory: the directory the process is in after the block
_working_directory_exit(prev, cur) == prev

\* command lines logged so far
Logged(evs) ==
    LET cmds == SelectSeq(evs, LAMBDA e : e.kind = "cmd")
    IN [i \in 1..Len(cmds) |-> cmds[i].cmd]

\* processes started so far
Spawned(evs) ==
    Len(SelectSeq(evs, LAMBDA e : e.kind = "cmd" /\ e.out \in {"ok", "nonzero", "timeout"}))

Goto(p) == pc' = p /\ error' = error /\ failed_at' = failed_at
Raise(e) == pc' = "failed" /\ error' = e /\ failed_at' = pc

----------------------------------------------------------------------------
(* Initial states *)

Configs ==
    [dry_run : BOOLEAN, is_public : BOOLEAN, is_archive : BOOLEAN, clean : BOOLEAN,
     git_user_name : {"None", "user"}, git_user_email : {"None", "mail"}]

\* sets of at most max (name, kind) entries with distinct names
Entries(names, kinds(_), max) ==
    UNION {{{[name |-> n, kind |-> k[n]] : n \in S} :
            k \in {f \in [S -> Kinds] : \A n \in S : f[n] \in kinds(n)}} :
           S \in {T \in SUBSET names : Cardinality(T) <= max}}

\* a clone left in repository_dir by an earlier run that got past the history
\* filter, with entries someone added to its root since
LeftoverTree(content, extras) ==
    LET f == FilteredTree(ClonedTree(content))
    IN [f EXCEPT !.root = @ \cup {Node(x.name, x.kind, "R") : x \in extras}]

\* repository_dir when the tool starts: absent, or such a leftover
LocalStates(content) ==
    {NoClone}
    \cup {LeftoverTree(content, x) : x \in Entries(ExtraNames, ExtraKinds, MaxExtras)}

Init ==
    /\ cfg \in Configs
    /\ repo \in Entries(TargetNames, TargetKinds, MaxEntries)
    /\ fs \in LocalStates(repo)
    /\ fs0 = fs
    /\ pc = "check_git"
    /\ cwd = "start"
    /\ prev_cwd = "start"
    /\ error = "none"
    /\ failed_at = "none"
    /\ events = <<>>
    /\ root_folders = {}
    /\ target_files = {}
    /\ todo = {}
    /\ skip_folders = <<>>
    /\ to_remove = {}
    /\ si = 1
    /\ is_tools = "unset"
    /\ is_rename = FALSE
    /\ ri = 1
    /\ rename_hist = <<>>
    /\ message = "none"
    /\ commits = <<>>
    /\ remote = [created |-> FALSE, registered |-> FALSE, pushed |-> FALSE,
                 archived |-> FALSE]
    /\ run_no = 1
    /\ dry_log = <<>>

----------------------------------------------------------------------------
(* _check_tools and the test of its result in _main *)

\* faulty variant: the result of the check is not tested
MainIgnoresTools(ok) == [pc |-> "clone", error |-> "none"]

\* _main: `if not is_tools: raise ValueError`
MainAfterTools(ok) ==
    IF ok THEN [pc |-> "clone", error |-> "none"]
    ELSE [pc |-> "failed", error |-> "ValueError"]

\* one _run_command call of _check_tools; `last` marks the third one
CheckTool(command_args, next, last) ==
    \E o \in ProcOutcomes :
        LET r == _run_command(command_args, cfg.dry_run, o) IN
        /\ events' = Append(events, r.ev)
        /\ IF r.exc = "none"
           THEN IF last
                THEN /\ is_tools' = "true"
                     /\ pc' = MainAfterTools(TRUE).pc
                     /\ error' = MainAfterTools(TRUE).error
                     /\ failed_at' = failed_at
                ELSE /\ is_tools' = is_tools
                     /\ Goto(next)
           ELSE IF r.exc = "_ScriptError"
           THEN /\ is_tools' = "false"
                /\ pc' = MainAfterTools(FALSE).pc
                /\ error' = MainAfterTools(FALSE).error
                /\ failed_at' = IF MainAfterTools(FALSE).pc = "failed" THEN pc ELSE failed_at
           ELSE /\ is_tools' = is_tools
                /\ Raise(r.exc)
        /\ UNCHANGED <<cfg, cwd, prev_cwd, fs, flatVars, renameVars, message,
                       commits, remote, pairVars>>

CheckGit ==
    /\ pc = "check_git"
    /\ CheckTool(<<"git", "--version">>, "check_filter_repo", FALSE)

CheckFilterRepo ==
    /\ pc = "check_filter_repo"
    /\ CheckTool(<<"git", "filter-repo", "--version">>, "check_gh", FALSE)

CheckGh ==
    /\ pc = "check_gh"
    /\ CheckTool(<<"gh", "--version">>, "clone", TRUE)

----------------------------------------------------------------------------
(* _filter_history *)

\* `gh repo clone` needs a destination that is absent or empty
CanClone(f) == ~f.exists \/ f.root = {}

FilterClone ==
    /\ pc = "clone"
    /\ \E o \in ProcOutcomes :
        LET r == _run_command(<<"gh", "repo", "clone", src_repository,
                                AbsPath(repository_dir)>>, cfg.dry_run, o) IN
        /\ r.ev.out = "ok" => CanClone(fs)
        /\ events' = Append(events, r.ev)
        /\ fs' = IF r.ev.out = "ok" THEN ClonedTree(repo) ELSE fs
        /\ IF r.exc = "none" THEN Goto("filter_repo") ELSE Raise(r.exc)
    /\ UNCHANGED <<cfg, cwd, prev_cwd, flatVars, is_tools, renameVars, message,
                   commits, remote, pairVars>>

FilterRepo ==
    /\ pc = "filter_repo"
    /\ prev_cwd' = cwd
    /\ IF ~fs.exists
       THEN \* os.chdir raises before the block is entered
            /\ Raise("FileNotFoundError")
            /\ UNCHANGED <<cwd, events, fs>>
       ELSE \E o \in ProcOutcomes :
            LET r == _run_command(<<"git", "filter-repo", "--path", target_dir>>,
                                  cfg.dry_run, o) IN
            /\ events' = Append(events, r.ev)
            /\ fs' = IF r.ev.out = "ok" THEN FilteredTree(fs) ELSE fs
            /\ cwd' = _working_directory_exit(cwd, "clone")
            /\ IF r.exc = "none" THEN Goto("flatten_enter") ELSE Raise(r.exc)
    /\ UNCHANGED <<cfg, flatVars, is_tools, renameVars, message, commits, remote,
                   pairVars>>

----------------------------------------------------------------------------
(* _change_root_directory *)

RmtreeEvent(path, result) ==
    [kind |-> "rmtree", cmd |-> <<"rmtree", path>>, out |-> result, killed |-> FALSE]

\* entering the block and taking the two snapshots
FlattenEnter ==
    /\ pc = "flatten_enter"
    /\ prev_cwd' = cwd
    /\ IF ~fs.exists
       THEN \* os.chdir raises before the block is entered
            /\ Raise("FileNotFoundError")
            /\ UNCHANGED <<cwd, flatVars>>
       ELSE IF ~fs.has_target
       THEN \* target_dir.iterdir() raises inside the block
            /\ Raise("FileNotFoundError")
            /\ cwd' = _working_directory_exit(cwd, "clone")
            /\ root_folders' = Names(fs.root)
            /\ UNCHANGED <<target_files, todo, skip_folders, to_remove, si>>
       ELSE /\ Goto("flatten_move")
            /\ cwd' = "clone"
            /\ root_folders' = Names(fs.root)
            /\ target_files' = Names(fs.target)
            /\ todo' = Names(fs.target)
            /\ skip_folders' = <<>>
            /\ UNCHANGED <<to_remove, si>>
    /\ UNCHANGED <<cfg, events, fs, is_tools, renameVars, message, commits, remote,
                   pairVars>>

\* first loop: one `git mv` per target entry, in the directory's listing order
FlattenMove ==
    /\ pc = "flatten_move"
    /\ IF todo = {}
       THEN /\ Goto("flatten_remove")
            /\ to_remove' = root_folders
            /\ UNCHANGED <<cwd, events, fs, todo, skip_folders>>
       ELSE \E name \in todo : \E o \in ProcOutcomes :
            LET collides == name \in root_folders
                new_name == IF collides THEN name \o "_test" ELSE name
                r == _run_command(<<"git", "mv", target_dir \o "/" \o name, new_name>>,
                                  cfg.dry_run, o) IN
            /\ r.ev.out = "ok" => CanMvFromTarget(fs, name, new_name)
            /\ skip_folders' = IF collides THEN Append(skip_folders, <<new_name, name>>)
                               ELSE skip_folders
            /\ events' = Append(events, r.ev)
            /\ fs' = IF r.ev.out = "ok" THEN MvFromTarget(fs, name, new_name) ELSE fs
            /\ todo' = todo \ {name}
            /\ to_remove' = to_remove
            /\ IF r.exc = "none"
               THEN Goto("flatten_move") /\ cwd' = cwd
               ELSE Raise(r.exc) /\ cwd' = _working_directory_exit(prev_cwd, cwd)
    /\ UNCHANGED <<cfg, prev_cwd, root_folders, target_files, si, is_tools,
                   renameVars, message, commits, remote, pairVars>>

\* second loop: shutil.rmtree of every snapshotted root entry but .git
FlattenRemove ==
    /\ pc = "flatten_remove"
    /\ IF to_remove = {}
       THEN /\ Goto("flatten_rename")
            /\ si' = 1
            /\ UNCHANGED <<cwd, events, fs, to_remove>>
       ELSE \E old_path \in to_remove :
            /\ to_remove' = to_remove \ {old_path}
            /\ si' = si
            /\ IF old_path = ".git"
               THEN Goto("flatten_remove") /\ UNCHANGED <<cwd, events, fs>>
               ELSE LET res == RmtreeResult(fs, old_path) IN
                    /\ events' = Append(events, RmtreeEvent(old_path, res))
                    /\ IF res = "ok"
                       THEN /\ fs' = Rmtree(fs, old_path)
                            /\ Goto("flatten_remove")
                            /\ cwd' = cwd
                       ELSE /\ fs' = fs
                            /\ Raise(res)
                            /\ cwd' = _working_directory_exit(prev_cwd, cwd)
    /\ UNCHANGED <<cfg, prev_cwd, root_folders, target_files, todo, skip_folders,
                   is_tools, renameVars, message, commits, remote, pairVars>>

\* third loop: `git mv` of every temporary name to its final name, then the
\* end of the block
FlattenRename ==
    /\ pc = "flatten_rename"
    /\ IF si > Len(skip_folders)
       THEN /\ Goto("commit_enter")
            /\ cwd' = _working_directory_exit(prev_cwd, cwd)
            /\ message' = "chore: change root directory."
            /\ UNCHANGED <<events, fs, si>>
       ELSE \E o \in ProcOutcomes :
            LET old_filename == skip_folders[si][1]
                new_filename == skip_folders[si][2]
                r == _run_command(<<"git", "mv", old_filename, new_filename>>,
                                  cfg.dry_run, o) IN
            /\ r.ev.out = "ok" => CanMvInRoot(fs, old_filename, new_filename)
            /\ events' = Append(events, r.ev)
            /\ fs' = IF r.ev.out = "ok" THEN MvInRoot(fs, old_filename, new_filename)
                     ELSE fs
            /\ si' = si + 1
            /\ message' = message
            /\ IF r.exc = "none"
               THEN Goto("flatten_rename") /\ cwd' = cwd
               ELSE Raise(r.exc) /\ cwd' = _working_directory_exit(prev_cwd, cwd)
    /\ UNCHANGED <<cfg, prev_cwd, root_folders, target_files, todo, skip_folders,
                   to_remove, is_tools, renameVars, commits, remote, pairVars>>

----------------------------------------------------------------------------
(* _git_commit *)

AfterEnter(c) ==
    IF c.git_user_name /= "None" THEN "config_name"
    ELSE IF c.git_user_email /= "None" THEN "config_email"
    ELSE "git_add"

\* where _main goes on after a commit
AfterCommit(msg) ==
    IF msg = "chore: change root directory." THEN "rename_enter" ELSE "gh_repo_create"

CommitEnter ==
    /\ pc = "commit_enter"
    /\ prev_cwd' = cwd
    /\ IF ~fs.exists
       THEN Raise("FileNotFoundError") /\ cwd' = cwd
       ELSE Goto(AfterEnter(cfg)) /\ cwd' = "clone"
    /\ UNCHANGED <<cfg, events, fs, flatVars, is_tools, renameVars, message, commits,
                   remote, pairVars>>

\* a _run_command call inside the block that has no effect the model tracks
CommitCommand(command_args, next) ==
    \E o \in ProcOutcomes :
        LET r == _run_command(command_args, cfg.dry_run, o) IN
        /\ events' = Append(events, r.ev)
        /\ IF r.exc = "none"
           THEN Goto(next) /\ cwd' = cwd
           ELSE Raise(r.exc) /\ cwd' = _working_directory_exit(prev_cwd, cwd)
        /\ UNCHANGED <<cfg, prev_cwd, fs, flatVars, is_tools, renameVars, message,
                       commits, remote, pairVars>>

GitConfigName ==
    /\ pc = "config_name"
    /\ CommitCommand(<<"git", "config", "--local", "user.name", cfg.git_user_name>>,
                     IF cfg.git_user_email /= "None" THEN "config_email" ELSE "git_add")

GitConfigEmail ==
    /\ pc = "config_email"
    /\ CommitCommand(<<"git", "config", "--local", "user.email", cfg.git_user_email>>,
                     "git_add")

GitAdd ==
    /\ pc = "git_add"
    /\ CommitCommand(<<"git", "add", ".">>, "git_commit")

GitCommit ==
    /\ pc = "git_commit"
    /\ \E o \in ProcOutcomes :
        LET r == _run_command(<<"git", "commit", "-m", message>>, cfg.dry_run, o) IN
        /\ events' = Append(events, r.ev)
        /\ commits' = IF r.ev.out = "ok" THEN Append(commits, message) ELSE commits
        /\ cwd' = _working_directory_exit(prev_cwd, cwd)
        /\ IF r.exc = "none" THEN Goto(AfterCommit(message)) ELSE Raise(r.exc)
    /\ UNCHANGED <<cfg, prev_cwd, fs, flatVars, is_tools, renameVars, message, remote,
                   pairVars>>

----------------------------------------------------------------------------
(* _git_rename *)

\* faulty variant: is_rename is set for every pair, skipped or not
_git_rename_flag_always(flag, moved) == TRUE

\* is_rename after a pair: set once the pair's command has returned
_git_rename_flag(flag, moved) == flag \/ moved

RenameEnter ==
    /\ pc = "rename_enter"
    /\ prev_cwd' = cwd
    /\ is_rename' = FALSE
    /\ ri' = 1
    /\ IF ~fs.exists
       THEN Raise("FileNotFoundError") /\ cwd' = cwd
       ELSE Goto("rename_loop") /\ cwd' = "clone"
    /\ UNCHANGED <<cfg, events, fs, flatVars, is_tools, rename_hist, message, commits,
                   remote, pairVars>>

RenameLoop ==
    /\ pc = "rename_loop"
    /\ IF ri > Len(rename_files)
       THEN \* end of the block; _main commits again if something was renamed
            /\ cwd' = _working_directory_exit(prev_cwd, cwd)
            /\ Goto(IF is_rename THEN "commit_enter" ELSE "gh_repo_create")
            /\ message' = IF is_rename THEN "chore: change filenames." ELSE message
            /\ UNCHANGED <<events, fs, renameVars>>
       ELSE LET src == rename_files[ri][1]
                dst == rename_files[ri][2] IN
            /\ ri' = ri + 1
            /\ message' = message
            /\ IF ~Has(fs.root, src)
               THEN \* src.exists() is false: logged and skipped
                    /\ rename_hist' = Append(rename_hist,
                                             [src |-> src, existed |-> FALSE, out |-> "skip"])
                    /\ is_rename' = _git_rename_flag(is_rename, FALSE)
                    /\ Goto("rename_loop")
                    /\ UNCHANGED <<cwd, events, fs>>
               ELSE \E o \in ProcOutcomes :
                    LET r == _run_command(<<"git", "mv", src, dst>>, cfg.dry_run, o) IN
                    /\ r.ev.out = "ok" => CanMvInRoot(fs, src, dst)
                    /\ events' = Append(events, r.ev)
                    /\ rename_hist' = Append(rename_hist,
                                             [src |-> src, existed |-> TRUE, out |-> r.ev.out])
                    /\ fs' = IF r.ev.out = "ok" THEN MvInRoot(fs, src, dst) ELSE fs
                    /\ IF r.exc = "none"
                       THEN /\ is_rename' = _git_rename_flag(is_rename, TRUE)
                            /\ Goto("rename_loop")
                            /\ cwd' = cwd
                       ELSE /\ is_rename' = is_rename
                            /\ Raise(r.exc)
                            /\ cwd' = _working_directory_exit(prev_cwd, cwd)
    /\ UNCHANGED <<cfg, prev_cwd, flatVars, is_tools, commits, remote, pairVars>>

----------------------------------------------------------------------------
(* _create_gh_repo_and_set_upstream, _git_push, _gh_repo_archive, clean *)

\* _main after the push: archive if asked, then clean if asked
AfterArchive(c) == IF c.clean THEN "clean" ELSE "done"

\* faulty variant: the archive flag is not tested
AfterPushAlwaysArchive(c) == "gh_repo_archive"

AfterPush(c) == IF c.is_archive THEN "gh_repo_archive" ELSE AfterArchive(c)

GhRepoCreate ==
    /\ pc = "gh_repo_create"
    /\ \E o \in ProcOutcomes :
        LET r == _run_command(<<"gh", "repo", "create", dst_repository,
                                IF cfg.is_public THEN "--public" ELSE "--private">>,
                              cfg.dry_run, o) IN
        /\ events' = Append(events, r.ev)
        /\ remote' = IF r.ev.out = "ok" THEN [remote EXCEPT !.created = TRUE] ELSE remote
        /\ IF r.exc = "none" THEN Goto("remote_add") ELSE Raise(r.exc)
    /\ UNCHANGED <<cfg, cwd, prev_cwd, fs, flatVars, is_tools, renameVars, message,
                   commits, pairVars>>

RemoteAdd ==
    /\ pc = "remote_add"
    /\ prev_cwd' = cwd
    /\ IF ~fs.exists
       THEN /\ Raise("FileNotFoundError")
            /\ UNCHANGED <<cwd, events, remote>>
       ELSE \E o \in ProcOutcomes :
            LET r == _run_command(<<"git", "remote", "add", "upstream",
                                    "https://github.com/" \o dst_repository \o ".git">>,
                                  cfg.dry_run, o) IN
            /\ events' = Append(events, r.ev)
            /\ remote' = IF r.ev.out = "ok" THEN [remote EXCEPT !.registered = TRUE]
                         ELSE remote
            /\ cwd' = _working_directory_exit(cwd, "clone")
            /\ IF r.exc = "none" THEN Goto("git_push") ELSE Raise(r.exc)
    /\ UNCHANGED <<cfg, fs, flatVars, is_tools, renameVars, message, commits, pairVars>>

GitPush ==
    /\ pc = "git_push"
    /\ prev_cwd' = cwd
    /\ IF ~fs.exists
       THEN /\ Raise("FileNotFoundError")
            /\ UNCHANGED <<cwd, events, remote>>
       ELSE \E o \in ProcOutcomes :
            LET r == _run_command(<<"git", "push", "upstream", "master">>,
                                  cfg.dry_run, o) IN
            /\ events' = Append(events, r.ev)
            /\ remote' = IF r.ev.out = "ok" THEN [remote EXCEPT !.pushed = TRUE] ELSE remote
            /\ cwd' = _working_directory_exit(cwd, "clone")
            /\ IF r.exc = "none" THEN Goto(AfterPush(cfg)) ELSE Raise(r.exc)
    /\ UNCHANGED <<cfg, fs, flatVars, is_tools, renameVars, message, commits, pairVars>>

GhRepoArchive ==
    /\ pc = "gh_repo_archive"
    /\ \E o \in ProcOutcomes :
        LET r == _run_command(<<"gh", "repo", "archive", dst_repository, "-y">>,
                              cfg.dry_run, o) IN
        /\ events' = Append(events, r.ev)
        /\ remote' = IF r.ev.out = "ok" THEN [remote EXCEPT !.archived = TRUE] ELSE remote
        /\ IF r.exc = "none" THEN Goto(AfterArchive(cfg)) ELSE Raise(r.exc)
    /\ UNCHANGED <<cfg, cwd, prev_cwd, fs, flatVars, is_tools, renameVars, message,
                   commits, pairVars>>

\* shutil.rmtree(repository_dir), from the start directory
Clean ==
    /\ pc = "clean"
    /\ IF fs.exists
       THEN /\ events' = Append(events, RmtreeEvent(repository_dir, "ok"))
            /\ fs' = NoClone
            /\ Goto("done")
       ELSE /\ events' = Append(events, RmtreeEvent(repository_dir, "FileNotFoundError"))
            /\ fs' = fs
            /\ Raise("FileNotFoundError")
    /\ UNCHANGED <<cfg, cwd, prev_cwd, flatVars, is_tools, renameVars, message, commits,
                   remote, pairVars>>

----------------------------------------------------------------------------
(* A second execution: the same command line without --dry-run, started on  *)
(* the file system the dry run was started on                               *)

Rerun ==
    /\ run_no = 1
    /\ cfg.dry_run
    /\ pc \in {"done", "failed"}
    /\ run_no' = 2
    /\ dry_log' = Logged(events)
    /\ cfg' = [cfg EXCEPT !.dry_run = FALSE]
    /\ fs' = fs0
    /\ pc' = "check_git"
    /\ cwd' = "start"
    /\ prev_cwd' = "start"
    /\ error' = "none"
    /\ failed_at' = "none"
    /\ events' = <<>>
    /\ root_folders' = {}
    /\ target_files' = {}
    /\ todo' = {}
    /\ skip_folders' = <<>>
    /\ to_remove' = {}
    /\ si' = 1
    /\ is_tools' = "unset"
    /\ is_rename' = FALSE
    /\ ri' = 1
    /\ rename_hist' = <<>>
    /\ message' = "none"
    /\ commits' = <<>>
    /\ remote' = [created |-> FALSE, registered |-> FALSE, pushed |-> FALSE,
                  archived |-> FALSE]
    /\ UNCHANGED <<fs0, repo>>

----------------------------------------------------------------------------
(* Specifications *)

Next ==
    \/ CheckGit
    \/ CheckFilterRepo
    \/ CheckGh
    \/ FilterClone
    \/ FilterRepo
    \/ FlattenEnter
    \/ FlattenMove
    \/ FlattenRemove
    \/ FlattenRename
    \/ CommitEnter
    \/ GitConfigName
    \/ GitConfigEmail
    \/ GitAdd
    \/ GitCommit
    \/ RenameEnter
    \/ RenameLoop
    \/ GhRepoCreate
    \/ RemoteAdd
    \/ GitPush
    \/ GhRepoArchive
    \/ Clean

\* one execution of the tool
Spec == Init /\ [][Next]_vars

NextPair == Next \/ Rerun

\* a dry run followed by a real run of the same command line
SpecPair == Init /\ [][NextPair]_vars

----------------------------------------------------------------------------
(* Vocabulary of the properties *)

IsCmd(e, command_args) == e.kind = "cmd" /\ e.cmd = command_args
FailedCmd(e) == e.kind = "cmd" /\ e.out \in {"nonzero", "timeout", "nolaunch"}
CmdFailed == \E i \in DOMAIN events : FailedCmd(events[i])
LastEvent == events[Len(events)]

IsToolCheck(e) == e.kind = "cmd" /\ e.cmd[Len(e.cmd)] = "--version"
IsFilterRepo(e) == IsCmd(e, <<"git", "filter-repo", "--path", target_dir>>)
IsRootRmtree(e) == e.kind = "rmtree" /\ e.cmd[2] /= repository_dir
IsCleanRmtree(e) == e.kind = "rmtree" /\ e.cmd[2] = repository_dir
IsTargetMove(e, n) == e.kind = "cmd" /\ Len(e.cmd) = 4 /\ e.cmd[1] = "git"
                      /\ e.cmd[2] = "mv" /\ e.cmd[3] = target_dir \o "/" \o n
IsRenameCmd(e) == \E i \in DOMAIN rename_files :
                      IsCmd(e, <<"git", "mv", rename_files[i][1], rename_files[i][2]>>)
IsCreate(e) == e.kind = "cmd" /\ Len(e.cmd) >= 3 /\ e.cmd[1] = "gh" /\ e.cmd[3] = "create"
IsRemoteAdd(e) == e.kind = "cmd" /\ e.cmd[1] = "git" /\ e.cmd[2] = "remote"
IsPush(e) == e.kind = "cmd" /\ e.cmd[1] = "git" /\ e.cmd[2] = "push"
IsArchive(e) == e.kind = "cmd" /\ Len(e.cmd) >= 3 /\ e.cmd[1] = "gh" /\ e.cmd[3] = "archive"

\* pcs at which _main is inside a _working_directory block
InBlock == {"flatten_move", "flatten_remove", "flatten_rename", "config_name",
            "config_email", "git_add", "git_commit", "rename_loop"}
ToolPcs == {"check_git", "check_filter_repo", "check_gh"}

\* _change_root_directory has returned and nothing has run since
FlattenDone == pc = "commit_enter" /\ message = "chore: change root directory."

\* _git_rename has returned
RenameReturned ==
    /\ ri > Len(rename_files)
    /\ pc /= "rename_loop"
    /\ ~(pc = "failed" /\ failed_at = "rename_loop")

----------------------------------------------------------------------------
(* C1 *)

\* C1: under dry-run no process is ever started and the working clone stays
\* exactly as it was when the tool started.
DryRunHasNoEffect ==
    cfg.dry_run => Spawned(events) = 0 /\ fs = fs0

(* C2 *)

\* C2: the command lines a dry run logs are exactly the command lines a fully
\* successful real run of the same configuration on the same initial file
\* system runs.
DryRunLogMatchesRealRun ==
    (run_no = 2 /\ pc = "done") => Logged(events) = dry_log

(* C3 *)

\* C3: when root flattening has completed without dry-run, the clone root holds
\* exactly .git and every former target entry under its original name, each of
\* them whole and at the top level, and no original root entry but .git.
FlattenPostcondition ==
    (FlattenDone /\ ~cfg.dry_run) =>
        /\ Names(fs.root) = target_files \cup {".git"}
        /\ \A e \in fs.root :
              IF e.name = ".git" THEN e.id = "R:.git"
              ELSE e.id = "T:" \o e.name /\ e.sub = {}

(* C4 *)

\* C4: once an external command has failed nothing follows it: it is the last
\* event of the run, the pipeline has stopped, a failed history rewrite leaves
\* the clone as it was checked out, and the clone is never cleaned away.
AbortOnFailure ==
    /\ \A i \in DOMAIN events : FailedCmd(events[i]) => i = Len(events)
    /\ CmdFailed =>
          /\ pc = "failed"
          /\ \A i \in DOMAIN events : ~IsCleanRmtree(events[i])
          /\ IsFilterRepo(LastEvent) => fs = ClonedTree(repo)
          /\ (\E i \in DOMAIN events : IsCmd(events[i], <<"gh", "repo", "clone",
                  src_repository, AbsPath(repository_dir)>>) /\ events[i].out = "ok")
             => fs.exists

\* C4 witness: the history rewrite failed in a run asked to clean up, and the
\* clone is still on disk as checked out.
AbortOnFailureWitness ==
    /\ events /= <<>>
    /\ IsFilterRepo(LastEvent)
    /\ LastEvent.out = "nonzero"
    /\ cfg.clean
    /\ pc = "failed"
    /\ fs = ClonedTree(repo)

(* C5 *)

\* C5: the tool check answers true only after three successful invocations, and
\* whenever one of them fails it answers false and no failure of the invocation
\* leaves the check.
CheckToolsCatchesFailure ==
    /\ is_tools = "true" =>
          /\ Len(events) >= 3
          /\ \A i \in 1..3 : IsToolCheck(events[i]) /\ ~FailedCmd(events[i])
    /\ (\E i \in DOMAIN events : IsToolCheck(events[i]) /\ FailedCmd(events[i])) =>
          is_tools = "false" /\ error = "ValueError"

(* C6 *)

\* C6: every failed external command ends in the one error kind _ScriptError
\* (turned into the tool check's ValueError inside _check_tools), and a process
\* that timed out has been killed.
SingleErrorKind ==
    (events /= <<>> /\ FailedCmd(LastEvent)) =>
        /\ \/ error = "_ScriptError"
           \/ failed_at \in ToolPcs /\ is_tools = "false" /\ error = "ValueError"
        /\ LastEvent.out = "timeout" => LastEvent.killed

(* C7 *)

\* C7: the rename step issues exactly one command per pair whose original path
\* exists and none for the others, never raises at a pair whose path is absent,
\* and returns True exactly when a rename command was carried out successfully.
RenameStepResult ==
    /\ Len(SelectSeq(events, IsRenameCmd))
         = Len(SelectSeq(rename_hist, LAMBDA h : h.existed))
    /\ \A i \in DOMAIN rename_hist : ~rename_hist[i].existed => rename_hist[i].out = "skip"
    /\ (pc = "failed" /\ failed_at = "rename_loop") =>
          rename_hist[Len(rename_hist)].existed
    /\ RenameReturned =>
          (is_rename <=> \E i \in DOMAIN rename_hist : rename_hist[i].out = "ok")

\* C7 witness: the step returned True after renaming index.md to README.md.
RenameStepWitness ==
    /\ RenameReturned
    /\ is_rename
    /\ Has(fs.root, "README.md")
    /\ ~Has(fs.root, "index.md")

(* C8 *)

\* C8: outside the blocks that change it, and after every way of leaving one,
\* the working directory is the directory the tool was started in.
WorkingDirectoryRestored ==
    pc \notin InBlock => cwd = "start"

\* C8 witness: a command failed inside a block and the directory is restored.
WorkingDirectoryWitness ==
    /\ pc = "failed"
    /\ failed_at \in InBlock
    /\ events /= <<>>
    /\ FailedCmd(LastEvent)
    /\ cwd = "start"

(* C9 *)

\* C9: a root entry is deleted only after the move of every target entry has
\* completed successfully, and a temporary name is renamed to its final name
\* only after the root entry of that final name has been deleted.
FlattenPhasesOrdered ==
    \A j \in DOMAIN events :
        /\ (IsRootRmtree(events[j]) /\ events[j].out = "ok") =>
              \A n \in target_files :
                  \E i \in 1..(j - 1) : IsTargetMove(events[i], n) /\ events[i].out = "ok"
        /\ \A k \in DOMAIN skip_folders :
              IsCmd(events[j], <<"git", "mv", skip_folders[k][1], skip_folders[k][2]>>) =>
                  \E i \in 1..(j - 1) :
                      /\ IsRootRmtree(events[i])
                      /\ events[i].cmd[2] = skip_folders[k][2]
                      /\ events[i].out = "ok"

(* C10 *)

\* a command returned to its caller, in the mode of the run
Returned(e) == e.out = (IF cfg.dry_run THEN "dry" ELSE "ok")

\* C10: the push comes only after repository creation and remote registration
\* have both succeeded, in that order; the archive command comes only with the
\* archive flag set and after a successful push.
PublishOrder ==
    /\ \A j \in DOMAIN events :
          /\ IsRemoteAdd(events[j]) =>
                \E i \in 1..(j - 1) : IsCreate(events[i]) /\ Returned(events[i])
          /\ IsPush(events[j]) =>
                \E i \in 1..(j - 1) : \E k \in (i + 1)..(j - 1) :
                    /\ IsCreate(events[i]) /\ Returned(events[i])
                    /\ IsRemoteAdd(events[k]) /\ Returned(events[k])
          /\ IsArchive(events[j]) =>
                /\ cfg.is_archive
                /\ \E i \in 1..(j - 1) : IsPush(events[i]) /\ Returned(events[i])
    /\ remote.pushed => remote.created /\ remote.registered
    /\ remote.archived => remote.pushed /\ cfg.is_archive

\* C10 witness: a real run that archived the repository it had pushed.
PublishOrderWitness ==
    /\ ~cfg.dry_run
    /\ remote.archived
    /\ \E j \in DOMAIN events : IsArchive(events[j]) /\ events[j].out = "ok"

====
